---- MODULE Spec2Model ----
(***************************************************************************)
(* Model of src/channel.rs: one Channel (a set of cloned handles sharing   *)
(* one Rc<RefCell<ChannelInner>>), its host buffer, and the bulk loads     *)
(* load_history / load_users running against a task executor.              *)
(*                                                                         *)
(* Two execution contexts are modelled: the single-threaded UI context     *)
(* (every Channel method, the host's close callback, handle clone/drop)    *)
(* and the task executor (the task spawned by load_history).               *)
(***************************************************************************)
EXTENDS Integers, Sequences, FiniteSets, TLC

\* ------------------------------------------------------------------ bounds
MaxHandles == 2      \* live Channel clones modelled at once
MaxOps     == 1      \* add/remove/update/redraw calls modelled in one run
MaxFetch   == 2      \* messages one history fetch returns (message_fetch_count)
MaxMsgId   == 2      \* remote message ids 1..MaxMsgId

\* mpsc::channel(100): the capacity of the handoff queue of load_history
QueueCap == 100

Guilds   == {"g1", "g2"}
NoGuild  == "none"                    \* Option<GuildId>::None
GuildOpt == {NoGuild} \cup Guilds
Absent   == "absent"                  \* cache.guild_channel(id) == None
CacheStates == {Absent} \cup Guilds   \* else Some(channel), guild_id() = Some(G)

MsgOps == {"add_msg", "remove_msg", "update_msg", "redraw_buffer"}

\* Guild ids a fetched message may carry: the history endpoint normally
\* leaves the guild id out; one stale id stands for the rest.
FetchedGuildOpt == {NoGuild, "g1"}

Message == [id : 1..MaxMsgId, guild : FetchedGuildOpt]

\* What http.channel_messages(id).limit(n) can deliver: at most MaxFetch
\* distinct messages, newest first (ids strictly descending).
FetchResults ==
    { s \in UNION { [1..n -> Message] : n \in 0..MaxFetch } :
        \A i \in 1..(Len(s) - 1) : s[i].id > s[i + 1].id }

VARIABLES
    handles,            \* Rc::strong_count of inner; 0 = ChannelInner dropped
    closed,             \* ChannelInner.closed
    borrows,            \* outstanding shared borrows (Ref) of the RefCell
    mutBorrowed,        \* an exclusive borrow (RefMut) of the RefCell is outstanding
    borrowPanic,        \* a RefCell borrow panicked (BorrowError / BorrowMutError)
    bufferAlive,        \* buffer_handle.upgrade() would succeed
    inCallback,         \* the host is running the buffer's close callback
    hostCloseCount,     \* times the host buffer has been closed
    surfaceCloseCalls,  \* calls of ChannelBufferVariants::close
    cbSetClosed,        \* outcome of set_closed() in the close callback
    apiSetClosed,       \* outcome of the last set_closed() outside the callback
    sharedDrop,         \* a handle was dropped while another copy existed
    opCount,            \* passthrough calls reaching the surface, per operation
    hpc,                \* load_history: "idle" | "recv"
    hres,               \* last load_history outcome: none | ok | err | panic
    tpc,                \* spawned task: "none" | "fetch" | "fetched" | "done" | "panicked"
    txAlive,            \* the Sender half still exists
    queue,              \* items buffered in the mpsc channel
    fetched,            \* what the remote fetch returned (raw)
    fetchFailed,        \* the remote fetch returned Err
    hCacheSeen,         \* what cache.guild_channel(id) returned to the task
    bulkArg,            \* argument of the last add_bulk_msgs call
    hBulk,              \* add_bulk_msgs calls made by the current/last load_history
    hSent,              \* items the task of the current/last load_history sent
    hRecv,              \* items the current/last load_history received
    upc,                \* load_users: "idle" | "members"
    ures,               \* last load_users outcome: none | ok | err
    uLookup,            \* what load_users found: none | absent | nomembers | found
    uCalls,             \* add_members calls made by the current/last load_users
    panicked,           \* a panic unwound on the UI context
    spc,                \* send_message task: "idle" | "spawned" | "request"
    sInput,             \* the text of the current/last send: none | valid | invalid
    sNet,               \* create-message requests sent for the current/last send
    sOutcome,           \* none | sent | rejected | invalid
    sReason,            \* the remote call's failure reason, "none" without one
    uiQueue,            \* futures handed to the UI context by spawn_from_thread
    printed,            \* Weechat::print calls of the current/last send
    recipients,         \* two recipient lists of private channels
    dmNames             \* their <<short_name, buffer_id>>, once built

vars == << handles, closed, borrows, bufferAlive, inCallback, hostCloseCount,
           surfaceCloseCalls, cbSetClosed, apiSetClosed, sharedDrop, opCount,
           hpc, hres, tpc, txAlive, queue, fetched, fetchFailed,
           hCacheSeen, bulkArg, hBulk, upc, ures, uLookup, uCalls, panicked,
           mutBorrowed, borrowPanic, hSent, hRecv,
           spc, sInput, sNet, sOutcome, sReason, uiQueue, printed,
           recipients, dmNames >>

lifeVars == << handles, closed, bufferAlive, inCallback, hostCloseCount,
               surfaceCloseCalls, cbSetClosed, apiSetClosed, sharedDrop >>
histVars == << hpc, hres, tpc, txAlive, queue, fetched, fetchFailed,
               hCacheSeen, bulkArg, hBulk, hSent, hRecv >>
userVars == << upc, ures, uLookup, uCalls >>
opVars   == << opCount >>
cellVars == << mutBorrowed, borrowPanic >>
sendVars == << spc, sInput, sNet, sOutcome, sReason, uiQueue, printed >>
nameVars == << recipients, dmNames >>

\* ------------------------------------------------------------ construction
\* ChannelInner::new: closed starts false; Channel::guild / Channel::private
\* wrap it in a fresh Rc (one handle), the host buffer having just been built.
NewClosed == FALSE

ChannelInit ==
    /\ handles = 1
    /\ closed = NewClosed
    /\ borrows = 0
    /\ mutBorrowed = FALSE
    /\ borrowPanic = FALSE
    /\ bufferAlive = TRUE
    /\ inCallback = FALSE
    /\ hostCloseCount = 0
    /\ surfaceCloseCalls = 0
    /\ cbSetClosed = "none"
    /\ apiSetClosed = "none"
    /\ sharedDrop = FALSE
    /\ opCount = [o \in MsgOps |-> 0]
    /\ hpc = "idle"
    /\ hres = "none"
    /\ tpc = "none"
    /\ txAlive = FALSE
    /\ queue = << >>
    /\ fetched = << >>
    /\ fetchFailed = FALSE
    /\ hCacheSeen = Absent
    /\ bulkArg = << >>
    /\ hBulk = 0
    /\ hSent = 0
    /\ hRecv = 0
    /\ upc = "idle"
    /\ ures = "none"
    /\ uLookup = "none"
    /\ uCalls = 0
    /\ panicked = FALSE

\* No send_message call has been made from the buffer's input callback.
SendInit ==
    /\ spc = "idle"
    /\ sInput = "none"
    /\ sNet = 0
    /\ sOutcome = "none"
    /\ sReason = "none"
    /\ uiQueue = << >>
    /\ printed = << >>

\* No private-channel buffer is being named.
NoNames ==
    /\ recipients = << << >>, << >> >>
    /\ dmNames = << >>

Init == ChannelInit /\ SendInit /\ NoNames

\* The UI context can run a Channel method: the process has not panicked, a
\* handle exists to call it on, and the host is not inside the close callback.
UiReady == ~panicked /\ handles > 0 /\ ~inCallback

\* A suspended load_history / load_users future borrows the handle it was
\* called on (&self), so that handle cannot be dropped meanwhile.
LoadInFlight == hpc # "idle" \/ upc # "idle"

\* RefCell::borrow panics when an exclusive borrow is outstanding.
BorrowPanics == mutBorrowed

\* The panic of a failed borrow unwinds on the UI context; nothing else moves.
PanicOnBorrow ==
    /\ borrowPanic' = TRUE
    /\ panicked' = TRUE
    /\ UNCHANGED << lifeVars, borrows, mutBorrowed, opVars, histVars, userVars >>

\* --------------------------------------------------------- handle lifecycle
\* #[derive(Clone)] on Channel: Rc::clone of inner.
CloneHandle ==
    /\ UiReady
    /\ handles < MaxHandles
    /\ handles' = handles + 1
    /\ UNCHANGED << closed, borrows, bufferAlive, inCallback, hostCloseCount,
                    surfaceCloseCalls, cbSetClosed, apiSetClosed, sharedDrop,
                    panicked >>
    /\ UNCHANGED << opVars, histVars, userVars, cellVars, sendVars, nameVars >>

\* ChannelBufferVariants::close: closes the host buffer if the handle upgrades.
\* Returns the pair <<hostCloseCount', bufferAlive'>>.  A close issued from
\* inside the close callback re-enters the host's close of the same buffer.
SurfaceClose ==
    IF bufferAlive
    THEN << hostCloseCount + 1, inCallback >>
    ELSE << hostCloseCount, bufferAlive >>

\* impl Drop for ChannelInner: skip when closed, else close the surface.
\* Returns <<surfaceCloseCalls', hostCloseCount', bufferAlive'>>.
DropInner_NoGuard ==
    << surfaceCloseCalls + 1, SurfaceClose[1], SurfaceClose[2] >>

DropInner ==
    IF closed
    THEN << surfaceCloseCalls, hostCloseCount, bufferAlive >>
    ELSE << surfaceCloseCalls + 1, SurfaceClose[1], SurfaceClose[2] >>

\* The Rc runs ChannelInner's destructor only when the last handle goes.
RunsDestructor_Always == TRUE

RunsDestructor == handles = 1

\* Dropping one Channel handle (allowed inside the close callback too).
DropHandle ==
    /\ ~panicked
    /\ handles > 0
    /\ (handles > 1 \/ ~LoadInFlight)
    /\ handles' = handles - 1
    /\ IF RunsDestructor
       THEN /\ surfaceCloseCalls' = DropInner[1]
            /\ hostCloseCount' = DropInner[2]
            /\ bufferAlive' = DropInner[3]
       ELSE UNCHANGED << surfaceCloseCalls, hostCloseCount, bufferAlive >>
    /\ sharedDrop' = (sharedDrop \/ handles > 1)
    /\ UNCHANGED << closed, borrows, inCallback, cbSetClosed, apiSetClosed,
                    panicked >>
    /\ UNCHANGED << opVars, histVars, userVars, cellVars, sendVars, nameVars >>

\* ------------------------------------------------------------- set_closed
\* RefCell::try_borrow_mut succeeds only when nothing else borrows the cell.
TryBorrowMutOk == borrows = 0 /\ ~mutBorrowed

\* Channel::set_closed: the value of closed once it returns.
ClosedAfterSet_Toggle == IF TryBorrowMutOk THEN ~closed ELSE closed

ClosedAfterSet_Unconditional == TRUE

ClosedAfterSet_Noop == closed

ClosedAfterSet == IF TryBorrowMutOk THEN TRUE ELSE closed

\* Whether the call took the mutable borrow (its Err is discarded by `let _`).
SetClosedOutcome == IF TryBorrowMutOk THEN "ok" ELSE "skipped"

\* try_borrow_mut returns Err instead of panicking (borrow_mut would panic
\* whenever the state is borrowed).
SetClosedPanics_BorrowMut == ~TryBorrowMutOk

SetClosedPanics == FALSE

\* The RefMut is a temporary of the `let _ = ...` statement: it is dropped
\* before set_closed returns.
MutHeldAfterSet_Leaked == TryBorrowMutOk

MutHeldAfterSet == FALSE

\* set_closed() called by application code outside the close callback.
SetClosed ==
    /\ UiReady
    /\ closed' = ClosedAfterSet
    /\ apiSetClosed' = SetClosedOutcome
    /\ mutBorrowed' = MutHeldAfterSet
    /\ borrowPanic' = (borrowPanic \/ SetClosedPanics)
    /\ panicked' = (panicked \/ SetClosedPanics)
    /\ UNCHANGED << handles, borrows, bufferAlive, inCallback, hostCloseCount,
                    surfaceCloseCalls, cbSetClosed, sharedDrop >>
    /\ UNCHANGED << opVars, histVars, userVars, sendVars, nameVars >>

\* The owner's close_cb: notifies the channel with set_closed() when a handle
\* to it still exists.  Returns <<closed', cbSetClosed', mutBorrowed',
\* whether set_closed panicked>>.
CloseCb ==
    IF handles > 0
    THEN << ClosedAfterSet, SetClosedOutcome, MutHeldAfterSet, SetClosedPanics >>
    ELSE << closed, cbSetClosed, mutBorrowed, FALSE >>

\* The host UI closes the buffer: it runs the registered close callback, which
\* logs and calls close_cb(buffer); the buffer handle still resolves until the
\* callback has returned.
UiCloseBegin ==
    /\ ~panicked
    /\ bufferAlive
    /\ ~inCallback
    /\ hostCloseCount' = hostCloseCount + 1
    /\ inCallback' = TRUE
    /\ closed' = CloseCb[1]
    /\ cbSetClosed' = CloseCb[2]
    /\ mutBorrowed' = CloseCb[3]
    /\ borrowPanic' = (borrowPanic \/ CloseCb[4])
    /\ panicked' = (panicked \/ CloseCb[4])
    /\ UNCHANGED << handles, borrows, bufferAlive, surfaceCloseCalls,
                    apiSetClosed, sharedDrop >>
    /\ UNCHANGED << opVars, histVars, userVars, sendVars, nameVars >>

\* The close callback returns; the host buffer is gone and the handle no
\* longer upgrades.
UiCloseEnd ==
    /\ inCallback
    /\ inCallback' = FALSE
    /\ bufferAlive' = FALSE
    /\ UNCHANGED << handles, closed, borrows, hostCloseCount, surfaceCloseCalls,
                    cbSetClosed, apiSetClosed, sharedDrop, panicked >>
    /\ UNCHANGED << opVars, histVars, userVars, cellVars, sendVars, nameVars >>

\* ------------------------------------------------- synchronous passthroughs
\* Channel::add_message / remove_message / update_message / redraw: borrow the
\* state and forward to the surface's renderer.  None of them reads `closed`.
\* Forwarded(op) is the per-operation count of surface calls after one call.
Forwarded(op) == [opCount EXCEPT ![op] = @ + 1]

OpsIssued == opCount["add_msg"] + opCount["remove_msg"]
             + opCount["update_msg"] + opCount["redraw_buffer"]

Passthrough(op) ==
    /\ UiReady
    /\ OpsIssued < MaxOps
    /\ IF BorrowPanics
       THEN PanicOnBorrow
       ELSE /\ opCount' = Forwarded(op)
            /\ UNCHANGED << lifeVars, borrows, panicked, histVars, userVars,
                            cellVars >>
    /\ UNCHANGED << sendVars, nameVars >>

AddMessage    == Passthrough("add_msg")
RemoveMessage == Passthrough("remove_msg")
UpdateMessage == Passthrough("update_msg")
Redraw        == Passthrough("redraw_buffer")

\* ------------------------------------------------------------ load_history
\* messages.into_iter().rev().collect()
Reverse_Identity(s) == s

Reverse(s) == [i \in 1..Len(s) |-> s[Len(s) + 1 - i]]

\* The guild-id hack of the spawned task: when the cache knows the channel,
\* every message gets the channel's guild id.
Backfill_Skipped(msgs, c) == msgs

Backfill(msgs, c) ==
    IF c = Absent THEN msgs
    ELSE [i \in 1..Len(msgs) |-> [msgs[i] EXCEPT !.guild = c]]

\* load_history up to its first suspension: create the mpsc channel, borrow
\* the state for `conn` (the Ref lives to the end of the function), spawn the
\* fetch task, then await rx.recv().
LoadHistoryStart ==
    /\ UiReady
    /\ hpc = "idle"
    /\ tpc \in {"none", "done", "panicked"}
    /\ IF BorrowPanics
       THEN PanicOnBorrow
       ELSE /\ borrows' = borrows + 1
            /\ hpc' = "recv"
            /\ hres' = "none"
            /\ tpc' = "fetch"
            /\ txAlive' = TRUE
            /\ queue' = << >>
            /\ fetched' = << >>
            /\ fetchFailed' = FALSE
            /\ hCacheSeen' = Absent
            /\ bulkArg' = << >>
            /\ hBulk' = 0
            /\ hSent' = 0
            /\ hRecv' = 0
            /\ UNCHANGED << lifeVars, panicked, opVars, userVars, cellVars >>
    /\ UNCHANGED << sendVars, nameVars >>

\* Task executor: the HTTP request completes with Ok(messages).
TaskFetchOk ==
    /\ ~panicked
    /\ tpc = "fetch"
    /\ \E r \in FetchResults : fetched' = r
    /\ tpc' = "fetched"
    /\ UNCHANGED << lifeVars, borrows, panicked, opVars, userVars,
                    hpc, hres, txAlive, queue, fetchFailed, hCacheSeen,
                    bulkArg, hBulk, hSent, hRecv >>
    /\ UNCHANGED << cellVars, sendVars, nameVars >>

\* Task executor: the HTTP request completes with Err; `.await.unwrap()`
\* panics inside the task, which ends it and drops its Sender.
TaskFetchErr ==
    /\ ~panicked
    /\ tpc = "fetch"
    /\ fetchFailed' = TRUE
    /\ tpc' = "panicked"
    /\ txAlive' = FALSE
    /\ UNCHANGED << lifeVars, borrows, panicked, opVars, userVars,
                    hpc, hres, queue, fetched, hCacheSeen, bulkArg, hBulk,
                    hSent, hRecv >>
    /\ UNCHANGED << cellVars, sendVars, nameVars >>

\* tx.send(messages): the task puts its one item into the channel.
Enqueue_Twice(q, item) == Append(Append(q, item), item)

Enqueue(q, item) == Append(q, item)

\* Task executor: look the channel up in the shared cache (c is what the
\* lookup returns), backfill the guild id, send the messages through the
\* channel, finish (the Sender is dropped with the task).
TaskBackfillSend ==
    /\ ~panicked
    /\ tpc = "fetched"
    /\ Len(queue) < QueueCap
    /\ \E c \in CacheStates :
          /\ hCacheSeen' = c
          /\ queue' = Enqueue(queue, Backfill(fetched, c))
    /\ hSent' = hSent + (Len(queue') - Len(queue))
    /\ tpc' = "done"
    /\ txAlive' = FALSE
    /\ UNCHANGED << lifeVars, borrows, panicked, opVars, userVars,
                    hpc, hres, fetched, fetchFailed, bulkArg, hBulk, hRecv >>
    /\ UNCHANGED << cellVars, sendVars, nameVars >>

\* rx.recv() resolves with an item as soon as the channel holds one; nothing
\* else (the closed flag, the host buffer) is consulted.
RecvReady_CancelOnClose == queue # << >> /\ bufferAlive /\ ~closed

RecvReady == queue # << >>

\* UI context: rx.recv() yields the item; the reversed messages go to the
\* surface in one add_bulk_msgs call; Ok(()) is returned and the Ref dropped.
LoadHistoryRecv ==
    /\ ~panicked /\ ~inCallback
    /\ hpc = "recv"
    /\ RecvReady
    /\ IF BorrowPanics
       THEN PanicOnBorrow
       ELSE /\ bulkArg' = Reverse(Head(queue))
            /\ queue' = Tail(queue)
            /\ hRecv' = hRecv + 1
            /\ hBulk' = hBulk + 1
            /\ hres' = "ok"
            /\ hpc' = "idle"
            /\ borrows' = borrows - 1
            /\ UNCHANGED << lifeVars, panicked, opVars, userVars, tpc, txAlive,
                            fetched, fetchFailed, hCacheSeen, hSent, cellVars >>
    /\ UNCHANGED << sendVars, nameVars >>

\* UI context: the channel is empty and its Sender gone, so rx.recv() yields
\* None and `.unwrap()` panics on the UI context; unwinding drops the Ref.
LoadHistoryRecvNone ==
    /\ ~panicked /\ ~inCallback
    /\ hpc = "recv"
    /\ queue = << >>
    /\ ~txAlive
    /\ hres' = "panic"
    /\ panicked' = TRUE
    /\ hpc' = "idle"
    /\ borrows' = borrows - 1
    /\ UNCHANGED << lifeVars, opVars, userVars, tpc, txAlive, queue,
                    fetched, fetchFailed, hCacheSeen, bulkArg, hBulk,
                    hSent, hRecv >>
    /\ UNCHANGED << cellVars, sendVars, nameVars >>

\* -------------------------------------------------------------- load_users
\* The two lookups of load_users: cache.guild_channel(self.id) returning c,
\* then channel.members(&conn.cache).
MembersLookup(c, membersOk) ==
    IF c = Absent THEN "absent"
    ELSE IF membersOk THEN "found" ELSE "nomembers"

\* Number of buffer.add_members calls load_users makes for a lookup outcome.
RosterCalls_Always(lookup) == 1

RosterCalls(lookup) == IF lookup = "found" THEN 1 ELSE 0

\* load_users up to its suspension in add_members (both Refs are held across
\* it), or to its Err return when a lookup fails.
LoadUsersStart ==
    /\ UiReady
    /\ upc = "idle"
    /\ IF BorrowPanics
       THEN PanicOnBorrow
       ELSE /\ \E c \in CacheStates, membersOk \in BOOLEAN :
                  /\ uLookup' = MembersLookup(c, membersOk)
                  /\ uCalls' = RosterCalls(uLookup')
                  /\ IF uLookup' = "found"
                     THEN /\ upc' = "members"
                          /\ ures' = "none"
                          /\ borrows' = borrows + 2
                     ELSE /\ upc' = "idle"
                          /\ ures' = "err"
                          /\ borrows' = borrows
            /\ UNCHANGED << lifeVars, panicked, opVars, histVars, cellVars >>
    /\ UNCHANGED << sendVars, nameVars >>

\* add_members completes; load_users returns Ok(()) and drops both Refs.
LoadUsersFinish ==
    /\ ~panicked /\ ~inCallback
    /\ upc = "members"
    /\ upc' = "idle"
    /\ ures' = "ok"
    /\ borrows' = borrows - 2
    /\ UNCHANGED << lifeVars, panicked, opVars, histVars, uLookup, uCalls >>
    /\ UNCHANGED << cellVars, sendVars, nameVars >>

\* ------------------------------------------------------------ send_message
\* Texts the input callback can submit, after create_mentions: one that
\* create_message(id).content(..) accepts and one it rejects.
Texts == {"valid", "invalid"}

\* Errors the awaited create-message request can end with.
FailureReasons == {"network", "permission"}

InvalidNotice == "Message content's invalid"

SendErrorNotice(e) == "An error occurred sending message: " \o e

\* `match http.create_message(id).content(input)`: only the Ok arm awaits the
\* request, that is, puts it on the network.
Dispatches_Always(text) == TRUE

Dispatches(text) == text = "valid"

\* Weechat::spawn_from_thread(async { Weechat::print(..) }): the notice is
\* queued for the UI context, which prints it.  Returns <<uiQueue', printed'>>.
Deliver_PrintInTask(text) ==
    << uiQueue, Append(printed, [text |-> text, ctx |-> "executor"]) >>

Deliver(text) == << Append(uiQueue, text), printed >>

\* What the task does after the awaited request failed: it reports and ends.
AfterFailure_Retry == IF sNet < 2 THEN "request" ELSE "idle"

AfterFailure == "idle"

\* UI context, from the buffer's input callback: send_message resolves the
\* mentions, clones the client, spawns the task and returns ().  One send is
\* followed at a time, from its call to the printing of its notice.
SendMessage ==
    /\ ~panicked /\ ~inCallback
    /\ bufferAlive
    /\ spc = "idle"
    /\ uiQueue = << >>
    /\ \E text \in Texts : sInput' = text
    /\ spc' = "spawned"
    /\ sNet' = 0
    /\ sOutcome' = "none"
    /\ sReason' = "none"
    /\ printed' = << >>
    /\ UNCHANGED << uiQueue, lifeVars, borrows, panicked, opVars, histVars,
                    userVars, cellVars, nameVars >>

\* Task executor: build the request from the text; send it when it is valid,
\* else report "Message content's invalid" and end.
SendTaskBuild ==
    /\ ~panicked
    /\ spc = "spawned"
    /\ IF Dispatches(sInput)
       THEN /\ spc' = "request"
            /\ sNet' = sNet + 1
            /\ UNCHANGED << sOutcome, uiQueue, printed >>
       ELSE /\ spc' = "idle"
            /\ sOutcome' = "invalid"
            /\ uiQueue' = Deliver(InvalidNotice)[1]
            /\ printed' = Deliver(InvalidNotice)[2]
            /\ UNCHANGED sNet
    /\ UNCHANGED << sInput, sReason, lifeVars, borrows, panicked, opVars,
                    histVars, userVars, cellVars, nameVars >>

\* Task executor: the awaited request succeeds.
SendTaskOk ==
    /\ ~panicked
    /\ spc = "request"
    /\ spc' = "idle"
    /\ sOutcome' = "sent"
    /\ UNCHANGED << sInput, sNet, sReason, uiQueue, printed, lifeVars, borrows,
                    panicked, opVars, histVars, userVars, cellVars, nameVars >>

\* Task executor: the awaited request fails with e; the task reports
\* "An error occurred sending message: e" and ends.
SendTaskErr ==
    /\ ~panicked
    /\ spc = "request"
    /\ \E e \in FailureReasons :
          /\ sReason' = e
          /\ uiQueue' = Deliver(SendErrorNotice(e))[1]
          /\ printed' = Deliver(SendErrorNotice(e))[2]
    /\ sOutcome' = "rejected"
    /\ spc' = AfterFailure
    /\ sNet' = IF spc' = "request" THEN sNet + 1 ELSE sNet
    /\ UNCHANGED << sInput, lifeVars, borrows, panicked, opVars, histVars,
                    userVars, cellVars, nameVars >>

\* UI context: the host's executor runs the queued future, which prints.
UiRunQueued ==
    /\ ~panicked /\ ~inCallback
    /\ uiQueue # << >>
    /\ printed' = Append(printed, [text |-> Head(uiQueue), ctx |-> "ui"])
    /\ uiQueue' = Tail(uiQueue)
    /\ UNCHANGED << spc, sInput, sNet, sOutcome, sReason, lifeVars, borrows,
                    panicked, opVars, histVars, userVars, cellVars, nameVars >>

\* ------------------------------------------- PrivateChannelBuffer's names
\* A string is the sequence of its characters.
MaxRecipients == 2

Bob == << "b", "o", "b" >>

AlIce == << "a", "l", " ", "i", "c", "e" >>

Ev == << "E", "v" >>

UserNames == {Bob, AlIce, Ev}

\* channel.recipients: the users of a private channel, in the order given.
RecipientLists ==
    UNION {[1..n -> UserNames] : n \in 0..MaxRecipients}

\* crate::utils::clean_name: lower-case the name and normalise its spaces.
CleanChar(c) ==
    CASE c = "E" -> "e"
      [] c = " " -> "_"
      [] OTHER -> c

CleanName(name) == [i \in 1..Len(name) |-> CleanChar(name[i])]

ShortPrefix == << "D", "M", " ", "w", "i", "t", "h", " " >>

IdPrefix == << "d", "i", "s", "c", "o", "r", "d", ".", "d", "m", "." >>

ShortSep_NoSpace == << "," >>

ShortSep == << ",", " " >>

IdSep == << "." >>

\* [String]::join(sep)
RECURSIVE Join(_, _)
Join(strs, sep) ==
    IF strs = << >> THEN << >>
    ELSE IF Len(strs) = 1 THEN strs[1]
    ELSE strs[1] \o sep \o Join(Tail(strs), sep)

ShortName(rs) ==
    ShortPrefix \o Join([i \in 1..Len(rs) |-> rs[i]], ShortSep)

BufferId(rs) ==
    IdPrefix \o Join([i \in 1..Len(rs) |-> CleanName(rs[i])], IdSep)

\* PrivateChannelBuffer::new names the buffer from channel.recipients as they
\* come.  Two private channels are named, one after the other.
NameInit ==
    /\ ChannelInit
    /\ SendInit
    /\ recipients \in RecipientLists \X RecipientLists
    /\ dmNames = << >>

NewPrivateBuffer ==
    /\ Len(dmNames) < Len(recipients)
    /\ LET rs == recipients[Len(dmNames) + 1]
       IN  dmNames' = Append(dmNames, [short |-> ShortName(rs),
                                       id |-> BufferId(rs)])
    /\ UNCHANGED << recipients, lifeVars, borrows, panicked, opVars, histVars,
                    userVars, cellVars, sendVars >>

NameNext == NewPrivateBuffer

NameSpec == NameInit /\ [][NameNext]_vars

Next ==
    \/ CloneHandle
    \/ DropHandle
    \/ SetClosed
    \/ UiCloseBegin
    \/ UiCloseEnd
    \/ AddMessage
    \/ RemoveMessage
    \/ UpdateMessage
    \/ Redraw
    \/ LoadHistoryStart
    \/ TaskFetchOk
    \/ TaskFetchErr
    \/ TaskBackfillSend
    \/ LoadHistoryRecv
    \/ LoadHistoryRecvNone
    \/ LoadUsersStart
    \/ LoadUsersFinish

Spec == Init /\ [][Next]_vars

\* The program seen from its concurrent tasks: everything that spawns onto
\* the runtime (load_history, send_message) with the channel's lifecycle.
TaskNext ==
    \/ CloneHandle
    \/ DropHandle
    \/ SetClosed
    \/ UiCloseBegin
    \/ UiCloseEnd
    \/ LoadHistoryStart
    \/ TaskFetchOk
    \/ TaskFetchErr
    \/ TaskBackfillSend
    \/ LoadHistoryRecv
    \/ LoadHistoryRecvNone
    \/ SendMessage
    \/ SendTaskBuild
    \/ SendTaskOk
    \/ SendTaskErr
    \/ UiRunQueued

TaskSpec == Init /\ [][TaskNext]_vars

\* load_history with the channel's lifecycle, under the scheduling the
\* runtimes give: the task executor runs a spawned task's next step, the host
\* returns from the close callback, and the UI executor polls load_history
\* again once its receive can resolve.
LoadNext ==
    \/ CloneHandle
    \/ DropHandle
    \/ SetClosed
    \/ UiCloseBegin
    \/ UiCloseEnd
    \/ LoadHistoryStart
    \/ TaskFetchOk
    \/ TaskFetchErr
    \/ TaskBackfillSend
    \/ LoadHistoryRecv
    \/ LoadHistoryRecvNone

FairLoadSpec ==
    /\ Init
    /\ [][LoadNext]_vars
    /\ WF_vars(TaskBackfillSend)
    /\ WF_vars(UiCloseEnd)
    /\ WF_vars(LoadHistoryRecv)

\* ================================================================= claims
SetClosedCalled == apiSetClosed # "none" \/ cbSetClosed # "none"

\* C1: whichever way the channel ends closed (the host UI closes the buffer
\* and its close callback calls set_closed(), or the last handle is dropped
\* while closed is still false), the host buffer's close has run exactly
\* once: never twice at any point, and not zero times once either path ended.
C1_HostCloseExactlyOnce ==
    /\ hostCloseCount <= 1
    /\ (cbSetClosed # "none" => hostCloseCount = 1)
    /\ (handles = 0 /\ ~closed => hostCloseCount = 1)

\* The host closed the buffer while a load held the state borrowed, so the
\* callback's set_closed() was skipped; the last handle was dropped later.
C1_Witness ==
    /\ cbSetClosed = "skipped"
    /\ handles = 0
    /\ ~closed
    /\ surfaceCloseCalls = 1
    /\ hostCloseCount = 1

\* C2 (as claimed): once set_closed() has been called, add_message,
\* remove_message and update_message apply nothing to the surface.
C2_NoSurfaceOpAfterSetClosed ==
    [][SetClosedCalled =>
          \A o \in {"add_msg", "remove_msg", "update_msg"} :
              opCount'[o] = opCount[o]]_vars

\* C3 (as claimed): once the close callback has called set_closed(), the
\* later drop of the last handle never invokes the surface's close.
C3_NoSurfaceCloseAfterCallback ==
    (cbSetClosed # "none" /\ handles = 0) => surfaceCloseCalls = 0

\* C3 (amended): when the callback's set_closed() found the state unborrowed
\* the drop of the last handle does not invoke the surface's close; when it
\* was skipped because a load held the state borrowed and closed is still
\* false at the drop, the drop does invoke the surface's close, which finds
\* the host buffer gone and closes nothing.
C3_SurfaceCloseFollowsFlag ==
    /\ (cbSetClosed = "ok" /\ handles = 0) => surfaceCloseCalls = 0
    /\ (cbSetClosed = "skipped" /\ handles = 0 /\ ~closed)
          => (surfaceCloseCalls = 1 /\ hostCloseCount = 1)

C3_Witness ==
    /\ cbSetClosed = "ok"
    /\ handles = 0
    /\ hres = "ok"
    /\ surfaceCloseCalls = 0
    /\ hostCloseCount = 1

\* C4: only the drop of the last handle can invoke the surface's close; it
\* does so exactly when closed is false and does nothing when closed is true;
\* dropping a handle while another copy exists leaves closed and the surface
\* untouched.
C4_OnlyLastDropCloses ==
    [][ /\ (surfaceCloseCalls' # surfaceCloseCalls
               => (handles = 1 /\ handles' = 0 /\ ~closed))
        /\ ((handles = 1 /\ handles' = 0 /\ ~closed)
               => surfaceCloseCalls' = surfaceCloseCalls + 1)
        /\ ((handles = 1 /\ handles' = 0 /\ closed)
               => UNCHANGED << surfaceCloseCalls, hostCloseCount, bufferAlive >>)
        /\ ((handles' < handles /\ handles' > 0)
               => UNCHANGED << closed, surfaceCloseCalls, hostCloseCount,
                               bufferAlive >>) ]_vars

C4_Witness ==
    /\ sharedDrop
    /\ handles = 0
    /\ ~closed
    /\ surfaceCloseCalls = 1

\* C5 (as claimed): every set_closed() call leaves closed true and does not
\* invoke the surface's close.
C5_SetClosedAlwaysMarks ==
    [][(SetClosed \/ (UiCloseBegin /\ handles > 0))
          => (closed' /\ surfaceCloseCalls' = surfaceCloseCalls)]_vars

\* C5 (amended): set_closed() leaves closed true when it can take the mutable
\* borrow, leaves closed as it was when the state is borrowed elsewhere, and
\* never invokes the surface's close.
C5_SetClosedMarksUnlessBorrowed ==
    [][(SetClosed \/ (UiCloseBegin /\ handles > 0))
          => /\ closed' = (closed \/ borrows = 0)
             /\ surfaceCloseCalls' = surfaceCloseCalls]_vars

C5_Witness ==
    /\ apiSetClosed = "skipped"
    /\ ~closed
    /\ hpc = "recv"
    /\ surfaceCloseCalls = 0

\* C6: closed is false at creation and, once true, true in every later state.
C6_ClosedTerminal ==
    /\ closed = FALSE
    /\ [][closed => closed']_vars

C6_Witness ==
    /\ closed
    /\ apiSetClosed = "ok"
    /\ hres = "ok"
    /\ ures = "ok"
    /\ handles = 0

\* C7: a successful load_history makes one bulk insert holding exactly the
\* fetched messages in the reverse of the order the fetch delivered them.
C7_HistoryReversed ==
    hres = "ok" =>
        /\ hBulk = 1
        /\ Len(bulkArg) = Len(fetched)
        /\ \A i \in 1..Len(fetched) :
              bulkArg[i].id = fetched[Len(fetched) + 1 - i].id

C7_Witness ==
    /\ hres = "ok"
    /\ Len(fetched) >= 2
    /\ bulkArg[1].id < bulkArg[2].id

\* C8: when the cache knows the channel to belong to guild G, every fetched
\* message without a guild id carries guild id G both in the item handed over
\* by the task (so before the surface sees it) and in the bulk insert.
C8_GuildBackfilled ==
    hCacheSeen \in Guilds =>
        /\ \A q \in 1..Len(queue) : \A i \in 1..Len(fetched) :
              fetched[i].guild = NoGuild => queue[q][i].guild = hCacheSeen
        /\ hres = "ok" =>
              \A i \in 1..Len(fetched) : \A j \in 1..Len(bulkArg) :
                  (fetched[i].guild = NoGuild /\ bulkArg[j].id = fetched[i].id)
                      => bulkArg[j].guild = hCacheSeen

C8_Witness ==
    /\ hres = "ok"
    /\ hCacheSeen \in Guilds
    /\ Len(fetched) >= 2
    /\ \A i \in 1..Len(fetched) : fetched[i].guild = NoGuild
    /\ \A j \in 1..Len(bulkArg) : bulkArg[j].guild = hCacheSeen

\* C9 (as claimed): when the remote fetch fails, load_history returns an
\* error to its caller without panicking and applies nothing to the surface.
C9_FetchErrorReturned ==
    (fetchFailed /\ hpc = "idle") => (hres = "err" /\ ~panicked /\ hBulk = 0)

\* C10: load_users returns an error and never calls add_members when the
\* channel is absent from the cache or member resolution fails; add_members
\* is called exactly once exactly when both lookups succeed.
C10_RosterOnlyOnSuccess ==
    /\ uLookup \in {"absent", "nomembers"}
          => (ures = "err" /\ uCalls = 0 /\ upc = "idle")
    /\ uLookup = "found" => (uCalls = 1 /\ ures \in {"none", "ok"})
    /\ ures = "ok" => (uLookup = "found" /\ uCalls = 1)
    /\ uLookup = "none" => uCalls = 0

C10_Witness ==
    /\ uLookup = "absent"
    /\ ures = "err"
    /\ uCalls = 0
    /\ upc = "idle"
\* The texts of the notices of the send being followed, queued or printed,
\* in the order they were reported.
Notices == [i \in 1..Len(printed) |-> printed[i].text] \o uiQueue

\* C11: a send whose text is rejected as invalid content makes no network
\* call and reports exactly one notice, the invalid-content one; send_message
\* has returned before the task detects anything, so nothing is returned to
\* its caller.
C11_InvalidContentNoticed ==
    /\ sInput = "invalid" => sNet = 0
    /\ (sInput = "invalid" /\ spc = "idle") =>
          /\ sOutcome = "invalid"
          /\ Notices = << InvalidNotice >>
    /\ spc = "spawned" => (sOutcome = "none" /\ Notices = << >>)

C11_Witness ==
    /\ sInput = "invalid"
    /\ sOutcome = "invalid"
    /\ sNet = 0
    /\ printed = << [text |-> InvalidNotice, ctx |-> "ui"] >>

\* C12: a send of valid text whose remote call fails has made exactly one
\* network attempt and reports exactly one notice, which carries the failure
\* reason; notices are printed on the UI context only, never from the task.
C12_RemoteFailureNoticed ==
    /\ sOutcome = "rejected" =>
          /\ sInput = "valid"
          /\ spc = "idle"
          /\ sNet = 1
          /\ sReason \in FailureReasons
          /\ Notices = << SendErrorNotice(sReason) >>
    /\ \A i \in 1..Len(printed) : printed[i].ctx = "ui"

C12_Witness ==
    /\ sInput = "valid"
    /\ sOutcome = "rejected"
    /\ sNet = 1
    /\ printed = << [text |-> SendErrorNotice("network"), ctx |-> "ui"] >>

\* The total length of the first k strings of strs.
RECURSIVE SumLen(_, _)
SumLen(strs, k) == IF k = 0 THEN 0 ELSE SumLen(strs, k - 1) + Len(strs[k])

\* str is prefix, then the parts in order, each at its offset, with sep
\* between two neighbours and nothing else.
LaidOut(str, prefix, parts, sep) ==
    LET n == Len(parts)
        off(i) == Len(prefix) + SumLen(parts, i - 1) + Len(sep) * (i - 1)
    IN  /\ Len(str) = Len(prefix) + SumLen(parts, n)
                      + (IF n = 0 THEN 0 ELSE Len(sep) * (n - 1))
        /\ SubSeq(str, 1, Len(prefix)) = prefix
        /\ \A i \in 1..n :
              SubSeq(str, off(i) + 1, off(i) + Len(parts[i])) = parts[i]
        /\ \A i \in 1..(n - 1) :
              SubSeq(str, off(i) + Len(parts[i]) + 1,
                          off(i) + Len(parts[i]) + Len(sep)) = sep

\* C13: for any recipient list the display name is "DM with " followed by the
\* recipients' names joined by ", ", and the buffer identifier is
\* "discord.dm." followed by the cleaned names joined by ".".
C13_DmNamesLaidOut ==
    \A k \in 1..Len(dmNames) :
        LET rs == recipients[k]
        IN  /\ LaidOut(dmNames[k].short,
                       << "D", "M", " ", "w", "i", "t", "h", " " >>,
                       rs, << ",", " " >>)
            /\ LaidOut(dmNames[k].id,
                       << "d", "i", "s", "c", "o", "r", "d", ".", "d", "m", "." >>,
                       [i \in 1..Len(rs) |-> CleanName(rs[i])], << "." >>)

C13_Witness ==
    /\ Len(dmNames) >= 1
    /\ recipients[1] = << Bob, AlIce >>
    /\ dmNames[1].short =
          << "D", "M", " ", "w", "i", "t", "h", " ", "b", "o", "b", ",", " ",
             "a", "l", " ", "i", "c", "e" >>
    /\ dmNames[1].id = IdPrefix \o Bob \o << "." >> \o CleanName(AlIce)

Count(strs, x) == Cardinality({i \in DOMAIN strs : strs[i] = x})

SameRecipients(rs1, rs2) ==
    \A u \in UserNames : Count(rs1, u) = Count(rs2, u)

\* C14: two recipient lists holding the same recipients in a different order
\* produce the same buffer identifier and the same display name.
C14_OrderIndependent ==
    (Len(dmNames) = 2 /\ SameRecipients(recipients[1], recipients[2])) =>
        dmNames[1] = dmNames[2]

\* C15: a set_closed() call made while the state is borrowed elsewhere is
\* skipped in silence: it does not panic, takes and leaves no borrow, is made
\* once, reports nothing, and closed keeps the value it had.
C15_SkippedInSilence ==
    [][((SetClosed \/ (UiCloseBegin /\ handles > 0)) /\ borrows > 0)
          => /\ closed' = closed
             /\ ~panicked' /\ ~borrowPanic'
             /\ ~mutBorrowed' /\ borrows' = borrows
             /\ uiQueue' = uiQueue /\ printed' = printed]_vars

C15_Witness ==
    /\ cbSetClosed = "skipped"
    /\ inCallback
    /\ borrows > 0
    /\ ~closed
    /\ ~panicked

ExecutorStep ==
    \/ TaskFetchOk
    \/ TaskFetchErr
    \/ TaskBackfillSend
    \/ SendTaskBuild
    \/ SendTaskOk
    \/ SendTaskErr

\* C17: no step of the task executor changes the channel state or the
\* surface: the handles, closed, the borrows of the state, the host buffer,
\* the renderer's bulk insert, forwarded operations, the roster and the
\* printed output are all left as they were; fetched messages and notices
\* reach them only through a later step on the UI context.
C17_ExecutorTouchesNothing ==
    [][ExecutorStep =>
          UNCHANGED << lifeVars, cellVars, borrows, opVars, userVars,
                       bulkArg, hBulk, hRecv, printed >>]_vars

C17_Witness ==
    /\ tpc = "done"
    /\ hres = "ok" /\ hBulk = 1
    /\ bulkArg # << >>
    /\ sOutcome = "rejected"
    /\ uiQueue = << >>
    /\ Len(printed) = 1 /\ printed[1].ctx = "ui"

\* The channel was closed, by set_closed() or by the host UI closing the
\* buffer, or is being closed.
ClosedOrClosing == SetClosedCalled \/ inCallback \/ ~bufferAlive

\* C18: a load_history whose fetch succeeded is not cancelled by closing the
\* channel: under fair scheduling the task hands its result over, the caller
\* receives it, attempts the bulk insert and returns Ok without panicking.
C18_LoadSurvivesClose ==
    (hpc = "recv" /\ tpc \in {"fetched", "done"} /\ ClosedOrClosing)
        ~> (hres = "ok" /\ hBulk = 1 /\ hpc = "idle" /\ ~panicked)

C18_Witness ==
    /\ hres = "ok" /\ hBulk = 1 /\ hpc = "idle"
    /\ cbSetClosed = "skipped"
    /\ ~bufferAlive
    /\ ~panicked

\* C19: in every interleaving of the channel's operations no borrow of the
\* shared state panics: no exclusive borrow outlives set_closed, and the
\* borrows held are exactly the shared ones of the suspended loads (one for
\* load_history, two for load_users), which coexist.
C19_NoBorrowConflict ==
    /\ ~borrowPanic
    /\ ~mutBorrowed
    /\ borrows = (IF hpc = "recv" THEN 1 ELSE 0)
                 + (IF upc = "members" THEN 2 ELSE 0)

C19_Witness ==
    /\ closed
    /\ apiSetClosed = "skipped"
    /\ hpc = "recv" /\ upc = "members"
    /\ OpsIssued = 1
    /\ ~panicked

====
